---------------------------- MODULE Spec2Model ----------------------------
(* Model of the Umbra scan-performance harness (src/unnamed/part_000) and  *)
(* of the ConnectWallet component (ConnectWallet.vue).                     *)
(*                                                                         *)
(* secp256k1 is scaled down to the curve y^2 = x^3 + 7 over GF(13), whose  *)
(* group has prime order 7 (as secp256k1's group has prime order), and the *)
(* 32-byte words (secrets, ciphertexts, scalars) to 4-bit words.           *)
EXTENDS Integers, Sequences, FiniteSets

VARIABLES ecdh, call, scan, fetch, wallet

vars == <<ecdh, call, scan, fetch, wallet>>

-----------------------------------------------------------------------------
(* Curve arithmetic: what @noble/secp256k1 computes.                       *)

FieldPrime == 13
CurveOrder == 7
CurveB == 7
WordBits == 4
WordModulus == 2 ^ WordBits

Infinity == [inf |-> TRUE, x |-> 0, y |-> 0]
Affine(px, py) == [inf |-> FALSE, x |-> px, y |-> py]
BasePoint == Affine(7, 5)

FieldElements == 0 .. (FieldPrime - 1)

Inverse(a) ==
    IF a % FieldPrime = 0 THEN 0
    ELSE CHOOSE b \in 1 .. (FieldPrime - 1) : (a * b) % FieldPrime = 1

OnCurve(px, py) ==
    /\ px \in FieldElements
    /\ py \in FieldElements
    /\ (py * py) % FieldPrime = (px * px * px + CurveB) % FieldPrime

PointAdd(P, Q) ==
    IF P.inf THEN Q
    ELSE IF Q.inf THEN P
    ELSE IF P.x = Q.x /\ (P.y + Q.y) % FieldPrime = 0 THEN Infinity
    ELSE LET lam == IF P.x = Q.x
                    THEN (3 * P.x * P.x * Inverse((2 * P.y) % FieldPrime)) % FieldPrime
                    ELSE ((Q.y - P.y) * Inverse((Q.x - P.x) % FieldPrime)) % FieldPrime
             rx  == (lam * lam - P.x - Q.x) % FieldPrime
             ry  == (lam * (P.x - rx) - P.y) % FieldPrime
         IN  Affine(rx, ry)

RECURSIVE PointMultiply(_, _)
PointMultiply(k, P) ==
    IF k = 0 THEN Infinity
    ELSE IF k % 2 = 1 THEN PointAdd(P, PointMultiply(k - 1, P))
    ELSE LET H == PointMultiply(k \div 2, P) IN PointAdd(H, H)

-----------------------------------------------------------------------------
(* Hex strings and hashes.  A key string is modelled by its length, by     *)
(* whether it is a hex string, and by the value its digits encode.         *)

lengths_privateKey == 66
lengths_publicKey == 132

isHexString(str) == str.hex

PrivateKeyString(k) == [len |-> lengths_privateKey, hex |-> TRUE, k |-> k]
PublicKeyString(P) == [len |-> lengths_publicKey, hex |-> TRUE, x |-> P.x, y |-> P.y]

\* sha256 over a byte payload (a sequence of words): an iterated mixing step that
\* is injective on one-word payloads and depends on every word of the payload.
RECURSIVE sha256(_)
sha256(bytes) ==
    IF bytes = <<>> THEN 0
    ELSE LET n == Len(bytes)
         IN  (5 * (sha256(SubSeq(bytes, 1, n - 1)) + bytes[n]) + 3) % WordModulus

RECURSIVE Bits(_, _)
Bits(v, n) == IF n = 0 THEN <<>> ELSE <<v % 2>> \o Bits(v \div 2, n - 1)

RECURSIVE FromBits(_)
FromBits(bs) == IF bs = <<>> THEN 0 ELSE Head(bs) + 2 * FromBits(Tail(bs))

\* hexZeroPad(value, length): the hex string of length bytes that encodes value
hexZeroPad(value, length) == [len |-> 2 + 2 * length, hex |-> TRUE, k |-> value]

\* BigNumber.xor on words of the model's width
xor(a, b) ==
    LET ba == Bits(a, WordBits)
        bb == Bits(b, WordBits)
    IN  FromBits([i \in 1 .. WordBits |-> (ba[i] + bb[i]) % 2])

-----------------------------------------------------------------------------
(* Validation helpers imported from ../src/utils/utils.                    *)

assertValidPoint(publicKey) ==
    /\ publicKey.len = lengths_publicKey
    /\ isHexString(publicKey)
    /\ OnCurve(publicKey.x, publicKey.y)

assertValidPrivateKey(privateKey) ==
    /\ privateKey.len = lengths_privateKey
    /\ isHexString(privateKey)
    /\ privateKey.k > 0
    /\ privateKey.k < CurveOrder

-----------------------------------------------------------------------------
(* getSharedSecret                                                          *)

NoSecret == 0 - 1

Thrown(msg) == [error |-> msg, secret |-> NoSecret]
Returned(secret) == [error |-> "none", secret |-> secret]

\* noble's getSharedSecret(privateKey, publicKey, isCompressed): the bytes of
\* privateKey * publicKey, compressed (parity prefix, x) or uncompressed (4, x, y).
PointBytes(P, isCompressed) ==
    IF isCompressed THEN <<2 + (P.y % 2), P.x>> ELSE <<4, P.x, P.y>>

nobleGetPublicKey(k, P, isCompressed) ==
    PointBytes(PointMultiply(k, BasePoint), isCompressed)

nobleGetSharedSecret(k, P, isCompressed) ==
    PointBytes(PointMultiply(k, P), isCompressed)

\* the prefix left in the hash input
KeepPrefix(bytes) == bytes

\* sharedSecretHex.slice(2): the payload without its one-byte prefix
StripPrefix(bytes) == Tail(bytes)

PrivateKeyFormatOk(privateKey) ==
    privateKey.len = lengths_privateKey /\ isHexString(privateKey)

PublicKeyFormatOk(publicKey) ==
    publicKey.len = lengths_publicKey /\ isHexString(publicKey)

SharedSecretBytes(privateKey, publicKey) ==
    nobleGetSharedSecret(privateKey.k, Affine(publicKey.x, publicKey.y), TRUE)

SharedSecretBytesUncompressed(privateKey, publicKey) ==
    nobleGetSharedSecret(privateKey.k, Affine(publicKey.x, publicKey.y), FALSE)

\* isCompressed = false: the hash input is x and y of the product
getSharedSecretUncompressed(privateKey, publicKey) ==
    IF ~PrivateKeyFormatOk(privateKey) THEN Thrown("Invalid private key")
    ELSE IF ~PublicKeyFormatOk(publicKey) THEN Thrown("Invalid public key")
    ELSE IF ~assertValidPoint(publicKey) THEN Thrown("PointNotOnCurve")
    ELSE IF ~assertValidPrivateKey(privateKey) THEN Thrown("InvalidPrivateKey")
    ELSE Returned(sha256(StripPrefix(SharedSecretBytesUncompressed(privateKey, publicKey))))

getSharedSecret(privateKey, publicKey) ==
    IF ~PrivateKeyFormatOk(privateKey) THEN Thrown("Invalid private key")
    ELSE IF ~PublicKeyFormatOk(publicKey) THEN Thrown("Invalid public key")
    ELSE IF ~assertValidPoint(publicKey) THEN Thrown("PointNotOnCurve")
    ELSE IF ~assertValidPrivateKey(privateKey) THEN Thrown("InvalidPrivateKey")
    ELSE Returned(sha256(StripPrefix(SharedSecretBytes(privateKey, publicKey))))

-----------------------------------------------------------------------------
(* KeyPair (../src/classes/KeyPair)                                         *)

ValidScalars == 1 .. (CurveOrder - 1)

\* the public key a KeyPair derives from the private key it holds
publicKeyHex(k) == PublicKeyString(PointMultiply(k, BasePoint))

\* prefix 03 instead of 02: the odd-y candidate
getUncompressedFromXOdd(pkx) ==
    LET ys == {py \in FieldElements : OnCurve(pkx, py) /\ py % 2 = 1}
    IN  IF ys = {} THEN [ok |-> FALSE, key |-> PublicKeyString(Infinity)]
        ELSE [ok |-> TRUE, key |-> PublicKeyString(Affine(pkx, CHOOSE py \in ys : TRUE))]

\* KeyPair.getUncompressedFromX: solve the curve equation for y and take the
\* even-y candidate; fails when no y exists for that x
getUncompressedFromX(pkx) ==
    LET ys == {py \in FieldElements : OnCurve(pkx, py) /\ py % 2 = 0}
    IN  IF ys = {} THEN [ok |-> FALSE, key |-> PublicKeyString(Infinity)]
        ELSE [ok |-> TRUE, key |-> PublicKeyString(Affine(pkx, CHOOSE py \in ys : TRUE))]

-----------------------------------------------------------------------------
(* Shared secrets of two key pairs (a, A = aG) and (b, B = bG), and the    *)
(* point recovered from the x-coordinate of B.                             *)

Pending == [error |-> "pending", secret |-> NoSecret]
NotRecovered == [ok |-> FALSE, key |-> PublicKeyString(Infinity)]

EcdhIdle ==
    [a |-> 0, b |-> 0, done |-> {}, AB |-> Pending, BA |-> Pending,
     recovered |-> NotRecovered, fromX |-> Pending]

EcdhInit ==
    \E a \in ValidScalars, b \in ValidScalars :
        ecdh = [EcdhIdle EXCEPT !.a = a, !.b = b]

\* getSharedSecret(a, B)
SecretAB ==
    /\ ecdh.a # 0
    /\ "AB" \notin ecdh.done
    /\ ecdh' = [ecdh EXCEPT !.done = @ \cup {"AB"},
                            !.AB = getSharedSecret(PrivateKeyString(ecdh.a), publicKeyHex(ecdh.b))]
    /\ UNCHANGED <<call, scan, fetch, wallet>>

\* getSharedSecret(b, A)
SecretBA ==
    /\ ecdh.a # 0
    /\ "BA" \notin ecdh.done
    /\ ecdh' = [ecdh EXCEPT !.done = @ \cup {"BA"},
                            !.BA = getSharedSecret(PrivateKeyString(ecdh.b), publicKeyHex(ecdh.a))]
    /\ UNCHANGED <<call, scan, fetch, wallet>>

\* KeyPair.getUncompressedFromX(x(B))
RecoverB ==
    /\ ecdh.a # 0
    /\ "recover" \notin ecdh.done
    /\ ecdh' = [ecdh EXCEPT !.done = @ \cup {"recover"},
                            !.recovered = getUncompressedFromX(publicKeyHex(ecdh.b).x)]
    /\ UNCHANGED <<call, scan, fetch, wallet>>

\* getSharedSecret(a, recovered point)
SecretFromX ==
    /\ "recover" \in ecdh.done
    /\ ecdh.recovered.ok
    /\ "fromX" \notin ecdh.done
    /\ ecdh' = [ecdh EXCEPT !.done = @ \cup {"fromX"},
                            !.fromX = getSharedSecret(PrivateKeyString(ecdh.a), ecdh.recovered.key)]
    /\ UNCHANGED <<call, scan, fetch, wallet>>

EcdhNext == SecretAB \/ SecretBA \/ RecoverB \/ SecretFromX

-----------------------------------------------------------------------------
(* One call of getSharedSecret, statement by statement, on arbitrary       *)
(* (also malformed) key strings.                                            *)

PrivateKeyStrings ==
    [len : {lengths_privateKey, lengths_privateKey - 2}, hex : BOOLEAN,
     k : 0 .. (CurveOrder + 1)]

PublicKeyStrings ==
    [len : {lengths_publicKey, lengths_publicKey - 64}, hex : BOOLEAN,
     x : FieldElements, y : FieldElements]

CallIdle ==
    [privateKey |-> PrivateKeyString(0), publicKey |-> PublicKeyString(Infinity),
     pc |-> "idle", error |-> "none", bytes |-> <<>>, secret |-> NoSecret, ecMuls |-> 0]

CallInit ==
    \E privateKey \in PrivateKeyStrings, publicKey \in PublicKeyStrings :
        call = [CallIdle EXCEPT !.privateKey = privateKey, !.publicKey = publicKey,
                                !.pc = "line18"]

\* the multiplication moved in front of the curve and range checks
LineAfterMultiplyFirst(pc) ==
    CASE pc = "line18" -> "line19"
      [] pc = "line19" -> "line26"
      [] pc = "line26" -> "line20"
      [] pc = "line20" -> "line21"
      [] pc = "line21" -> "line28"
      [] pc = "line28" -> "returned"

\* the statement that follows each statement of getSharedSecret
LineAfter(pc) ==
    CASE pc = "line18" -> "line19"
      [] pc = "line19" -> "line20"
      [] pc = "line20" -> "line21"
      [] pc = "line21" -> "line26"
      [] pc = "line26" -> "line28"
      [] pc = "line28" -> "returned"

CallThrow(msg) == [call EXCEPT !.pc = "thrown", !.error = msg]

CheckPrivateKeyFormat ==
    /\ call.pc = "line18"
    /\ call' = IF ~PrivateKeyFormatOk(call.privateKey)
               THEN CallThrow("Invalid private key")
               ELSE [call EXCEPT !.pc = LineAfter("line18")]
    /\ UNCHANGED <<ecdh, scan, fetch, wallet>>

CheckPublicKeyFormat ==
    /\ call.pc = "line19"
    /\ call' = IF ~PublicKeyFormatOk(call.publicKey)
               THEN CallThrow("Invalid public key")
               ELSE [call EXCEPT !.pc = LineAfter("line19")]
    /\ UNCHANGED <<ecdh, scan, fetch, wallet>>

CallAssertValidPoint ==
    /\ call.pc = "line20"
    /\ call' = IF ~assertValidPoint(call.publicKey)
               THEN CallThrow("PointNotOnCurve")
               ELSE [call EXCEPT !.pc = LineAfter("line20")]
    /\ UNCHANGED <<ecdh, scan, fetch, wallet>>

CallAssertValidPrivateKey ==
    /\ call.pc = "line21"
    /\ call' = IF ~assertValidPrivateKey(call.privateKey)
               THEN CallThrow("InvalidPrivateKey")
               ELSE [call EXCEPT !.pc = LineAfter("line21")]
    /\ UNCHANGED <<ecdh, scan, fetch, wallet>>

CallMultiply ==
    /\ call.pc = "line26"
    /\ call' = [call EXCEPT !.pc = LineAfter("line26"),
                            !.bytes = SharedSecretBytes(call.privateKey, call.publicKey),
                            !.ecMuls = @ + 1]
    /\ UNCHANGED <<ecdh, scan, fetch, wallet>>

CallHash ==
    /\ call.pc = "line28"
    /\ call' = [call EXCEPT !.pc = LineAfter("line28"),
                            !.secret = sha256(StripPrefix(call.bytes))]
    /\ UNCHANGED <<ecdh, scan, fetch, wallet>>

CallNext ==
    \/ CheckPrivateKeyFormat
    \/ CheckPublicKeyFormat
    \/ CallAssertValidPoint
    \/ CallAssertValidPrivateKey
    \/ CallMultiply
    \/ CallHash

-----------------------------------------------------------------------------
(* The scan loop of the harness: announcements.reduce(...), lines 103-143. *)

MaxBatch == 2

\* viewing private keys announcements are made for: the user's and another recipient's
UserViewingScalar == 1 + 2
OtherViewingScalar == 1 + 1

EmptyString == 0 - 1

\* address of a public key: a hash of both coordinates
addressOf(P) == (37 * (P.x * FieldPrime + P.y) + 11) % (WordModulus * WordModulus)

NoAddress == 0 - 1

\* The announcement a sender publishes for the holder of viewing public key V
\* with random value r: x of the ephemeral key rG, r XOR the shared secret, and
\* the second hash of the secret as the tag.
Announce(r, V) ==
    LET secret == getSharedSecret(PrivateKeyString(r), V).secret
    IN  [pkx |-> PointMultiply(r, BasePoint).x, ciphertext |-> xor(r, secret),
         tag |-> sha256(<<secret>>)]

AnnouncementPool ==
    {Announce(r, publicKeyHex(UserViewingScalar)) : r \in ValidScalars}
    \cup {Announce(r, publicKeyHex(OtherViewingScalar)) : r \in {1, 2}}
    \cup {[pkx |-> 0, ciphertext |-> 5, tag |-> 0],
          [pkx |-> 7, ciphertext |-> EmptyString, tag |-> 0]}

Batches == UNION {[1 .. n -> AnnouncementPool] : n \in 0 .. MaxBatch}

\* The receiver wallet (line 44): Wallet.fromMnemonic gives a valid private key,
\* and receiver.publicKey is the public key of that same private key.  The wallet
\* may be the one the announcements were made for or any other.
ReceiverScalars == ValidScalars

NoKey == PublicKeyString(Infinity)

NoRandomNumber == [len |-> 0, hex |-> FALSE, k |-> 0]

ScanIdle ==
    [announcements |-> <<>>, receiverPrivateKey |-> PrivateKeyString(0),
     receiverPublicKey |-> NoKey, i |-> 1, pc |-> "idle", error |-> "none",
     ephemeralPublicKey |-> NoKey, privateKeyHex |-> NoKey, sharedSecret |-> NoSecret,
     tag |-> NoSecret, randomNumber |-> NoRandomNumber, address |-> NoAddress,
     trace |-> <<>>, results |-> <<>>]

ScanInit ==
    \E announcements \in Batches, w \in ReceiverScalars :
        scan = [ScanIdle EXCEPT !.announcements = announcements,
                                !.receiverPrivateKey = PrivateKeyString(w),
                                !.receiverPublicKey = publicKeyHex(w),
                                !.pc = "reduce"]

\* new KeyPair(key).privateKeyHex: the key when it is a private key, null otherwise
KeyPairPrivateKeyHex(key) == IF key.len = lengths_privateKey THEN key ELSE NoKey

\* KeyPair.mulPublicKey(value): the held public key times the scalar
mulPublicKey(publicKey, value) ==
    IF ~assertValidPrivateKey(value) THEN [ok |-> FALSE, point |-> Infinity]
    ELSE [ok |-> TRUE, point |-> PointMultiply(value.k, Affine(publicKey.x, publicKey.y))]

\* the decryption moved in front of the tag
ScanLineAfterDecryptFirst(pc) ==
    CASE pc = "line108" -> "line111"
      [] pc = "line111" -> "line118"
      [] pc = "line118" -> "line121"
      [] pc = "line121" -> "line125"
      [] pc = "line125" -> "line123"
      [] pc = "line123" -> "line129"
      [] pc = "line129" -> "line133"
      [] pc = "line133" -> "reduce"

\* the statement that follows each statement of the reduce callback
ScanLineAfter(pc) ==
    CASE pc = "line108" -> "line111"
      [] pc = "line111" -> "line118"
      [] pc = "line118" -> "line121"
      [] pc = "line121" -> "line123"
      [] pc = "line123" -> "line125"
      [] pc = "line125" -> "line129"
      [] pc = "line129" -> "line133"
      [] pc = "line133" -> "reduce"

ScanThrow(msg) == [scan EXCEPT !.pc = "thrown", !.error = msg]

ScanStep(pc, name) == [scan EXCEPT !.pc = ScanLineAfter(pc), !.trace = Append(@, name)]

Current == scan.announcements[scan.i]

\* reduce: call the callback on the next announcement, or return (line 143)
ScanReduce ==
    /\ scan.pc = "reduce"
    /\ scan' = IF scan.i <= Len(scan.announcements)
               THEN [scan EXCEPT !.pc = "line108", !.trace = <<>>,
                                 !.ephemeralPublicKey = NoKey, !.privateKeyHex = NoKey,
                                 !.sharedSecret = NoSecret, !.tag = NoSecret,
                                 !.randomNumber = NoRandomNumber, !.address = NoAddress]
               ELSE [scan EXCEPT !.pc = "done"]
    /\ UNCHANGED <<ecdh, call, fetch, wallet>>

\* lines 107-108
ScanRecover ==
    /\ scan.pc = "line108"
    /\ LET r == getUncompressedFromX(Current.pkx)
       IN  scan' = IF ~r.ok THEN ScanThrow("PointRecoveryFailed")
                   ELSE [ScanStep("line108", "recover") EXCEPT !.ephemeralPublicKey = r.key]
    /\ UNCHANGED <<ecdh, call, fetch, wallet>>

\* lines 111-117
ScanKeyPair ==
    /\ scan.pc = "line111"
    /\ LET privateKeyHex == KeyPairPrivateKeyHex(scan.receiverPrivateKey)
       IN  scan' = IF Current.ciphertext = EmptyString
                   THEN ScanThrow("Input must be of type EncryptedPayload to decrypt")
                   ELSE IF privateKeyHex = NoKey
                   THEN ScanThrow("KeyPair has no associated private key to decrypt with")
                   ELSE [ScanStep("line111", "keypair") EXCEPT !.privateKeyHex = privateKeyHex]
    /\ UNCHANGED <<ecdh, call, fetch, wallet>>

\* line 118
ScanAssertValidPoint ==
    /\ scan.pc = "line118"
    /\ scan' = IF ~assertValidPoint(scan.ephemeralPublicKey)
               THEN ScanThrow("PointNotOnCurve")
               ELSE ScanStep("line118", "assertValidPoint")
    /\ UNCHANGED <<ecdh, call, fetch, wallet>>

\* line 121
ScanSharedSecret ==
    /\ scan.pc = "line121"
    /\ LET r == getSharedSecret(scan.privateKeyHex, scan.ephemeralPublicKey)
       IN  scan' = IF r.error # "none" THEN ScanThrow(r.error)
                   ELSE [ScanStep("line121", "secret") EXCEPT !.sharedSecret = r.secret]
    /\ UNCHANGED <<ecdh, call, fetch, wallet>>

\* line 123: the hash of the secret is computed and dropped
ScanTag ==
    /\ scan.pc = "line123"
    /\ scan' = [ScanStep("line123", "tag") EXCEPT !.tag = sha256(<<scan.sharedSecret>>)]
    /\ UNCHANGED <<ecdh, call, fetch, wallet>>

\* lines 125-126
ScanDecrypt ==
    /\ scan.pc = "line125"
    /\ scan' = [ScanStep("line125", "decrypt") EXCEPT
                    !.randomNumber = hexZeroPad(xor(Current.ciphertext, scan.sharedSecret), 32)]
    /\ UNCHANGED <<ecdh, call, fetch, wallet>>

\* lines 129-131
ScanDerive ==
    /\ scan.pc = "line129"
    /\ LET r == mulPublicKey(scan.receiverPublicKey, scan.randomNumber)
       IN  scan' = IF ~r.ok THEN [ScanThrow("InvalidScalar") EXCEPT !.trace = Append(@, "derive")]
                   ELSE [ScanStep("line129", "derive") EXCEPT !.address = addressOf(r.point)]
    /\ UNCHANGED <<ecdh, call, fetch, wallet>>

\* lines 133-140: the callback returns its accumulator
ScanAccumulate ==
    /\ scan.pc = "line133"
    /\ scan' = [scan EXCEPT !.pc = ScanLineAfter("line133"),
                            !.i = @ + 1,
                            !.results = Append(@, [address |-> scan.address, tag |-> scan.tag,
                                                   randomNumber |-> scan.randomNumber,
                                                   trace |-> scan.trace])]
    /\ UNCHANGED <<ecdh, call, fetch, wallet>>

ScanNext ==
    \/ ScanReduce
    \/ ScanRecover
    \/ ScanKeyPair
    \/ ScanAssertValidPoint
    \/ ScanSharedSecret
    \/ ScanTag
    \/ ScanDecrypt
    \/ ScanDerive
    \/ ScanAccumulate

-----------------------------------------------------------------------------
(* The fetchAllAnnouncements tests and the beforeEach of the scan test     *)
(* (lines 60-100), in the order the test file runs them: five calls of     *)
(* umbra.fetchAllAnnouncements, two on the subgraph, then, once line 77    *)
(* has emptied chainConfig.subgraphUrl, three on the node's logs.          *)
(* Each test fetches a one-block range and then the range that starts at   *)
(* the same block and spans more blocks (100 in the test file).            *)

MaxBlock == 3
MaxLogs == 2
PageSize == 2
ChunkBlocks == 2

Blocks == 1 .. MaxBlock

Chains == [Blocks -> 0 .. MaxLogs]

RECURSIVE LogsOfBlock(_, _)
LogsOfBlock(blockNumber, n) ==
    IF n = 0 THEN <<>>
    ELSE Append(LogsOfBlock(blockNumber, n - 1), [blockNumber |-> blockNumber, logIndex |-> n])

\* the announcements of blocks from .. to of the chain, in block and log order
RECURSIVE LogsInRange(_, _, _)
LogsInRange(chain, from, to) ==
    IF from > to THEN <<>>
    ELSE LogsInRange(chain, from, to - 1) \o LogsOfBlock(to, chain[to])

\* one page of the indexer's answer: at most PageSize entities after skipping skip
IndexerPage(chain, startBlock, endBlock, skip) ==
    LET all == LogsInRange(chain, startBlock, endBlock)
        last == IF skip + PageSize < Len(all) THEN skip + PageSize ELSE Len(all)
    IN  SubSeq(all, skip + 1, last)

\* the sub-range that starts at the block a sub-range ended at
NextFromBlockOverlapping(to) == to

\* the sub-range that follows the sub-range ending at block to
NextFromBlock(to) == to + 1

ChunkEnd(from, endBlock) ==
    IF from + ChunkBlocks - 1 < endBlock THEN from + ChunkBlocks - 1 ELSE endBlock

\* The statements of the test file that fetch, in execution order.
TestScript ==
    << [line |-> 63, kind |-> "fetch", wide |-> FALSE, into |-> "a1"],
       [line |-> 68, kind |-> "fetch", wide |-> TRUE,  into |-> "a2"],
       [line |-> 77, kind |-> "clear", wide |-> FALSE, into |-> ""],
       [line |-> 79, kind |-> "fetch", wide |-> FALSE, into |-> "a1"],
       [line |-> 84, kind |-> "fetch", wide |-> TRUE,  into |-> "a2"],
       [line |-> 97, kind |-> "fetch", wide |-> TRUE,  into |-> "announcements"] >>

NotFetched == <<[blockNumber |-> 0, logIndex |-> 0]>>

FetchIdle ==
    [chain |-> [b \in Blocks |-> 0], startBlock |-> 1, span |-> 0, endBlock |-> 1,
     subgraphUrl |-> "", step |-> 1, pc |-> "idle", skip |-> 0, from |-> 1, acc |-> <<>>,
     a1 |-> NotFetched, a2 |-> NotFetched, announcements |-> NotFetched, returned |-> <<>>]

\* the chain, the block the ranges start at, and how far the wide range reaches
FetchInit ==
    \E chain \in Chains, startBlock \in Blocks, span \in 0 .. (MaxBlock - 1) :
        /\ startBlock + span <= MaxBlock
        /\ fetch = [FetchIdle EXCEPT !.chain = chain, !.startBlock = startBlock,
                                     !.span = span,
                                     !.subgraphUrl = "https://api.thegraph.com/subgraphs",
                                     !.pc = "ready"]

FetchStatement == TestScript[fetch.step]

\* the call has returned result: it is bound to the statement's variable, and the
\* test goes on to its next statement
FetchReturn(result) ==
    LET done == [fetch EXCEPT !.pc = "ready", !.step = @ + 1, !.acc = <<>>,
                              !.returned = Append(@, [line |-> FetchStatement.line,
                                                      subgraphUrl |-> fetch.subgraphUrl,
                                                      startBlock |-> fetch.startBlock,
                                                      endBlock |-> fetch.endBlock,
                                                      result |-> result])]
    IN  IF FetchStatement.into = "a1" THEN [done EXCEPT !.a1 = result]
        ELSE IF FetchStatement.into = "a2" THEN [done EXCEPT !.a2 = result]
        ELSE [done EXCEPT !.announcements = result]

\* umbra.fetchAllAnnouncements({startBlock, endBlock}) is called: the backend is
\* chosen by the subgraphUrl of the chainConfig the Umbra instance was given
FetchCall ==
    /\ fetch.pc = "ready"
    /\ fetch.step <= Len(TestScript)
    /\ FetchStatement.kind = "fetch"
    /\ LET endBlock == IF FetchStatement.wide THEN fetch.startBlock + fetch.span
                       ELSE fetch.startBlock
       IN  fetch' = IF fetch.subgraphUrl # ""
                    THEN [fetch EXCEPT !.pc = "subgraph", !.endBlock = endBlock,
                                       !.skip = 0, !.acc = <<>>]
                    ELSE [fetch EXCEPT !.pc = "node", !.endBlock = endBlock,
                                       !.from = fetch.startBlock, !.acc = <<>>]
    /\ UNCHANGED <<ecdh, call, scan, wallet>>

\* one page from the indexer; a short page is the last one
FetchPage ==
    /\ fetch.pc = "subgraph"
    /\ LET page == IndexerPage(fetch.chain, fetch.startBlock, fetch.endBlock, fetch.skip)
       IN  fetch' = IF Len(page) < PageSize
                    THEN FetchReturn(fetch.acc \o page)
                    ELSE [fetch EXCEPT !.skip = @ + PageSize, !.acc = @ \o page]
    /\ UNCHANGED <<ecdh, call, scan, wallet>>

\* one sub-range of logs from the node
FetchChunk ==
    /\ fetch.pc = "node"
    /\ LET to == ChunkEnd(fetch.from, fetch.endBlock)
           logs == LogsInRange(fetch.chain, fetch.from, to)
       IN  fetch' = IF to = fetch.endBlock
                    THEN FetchReturn(fetch.acc \o logs)
                    ELSE [fetch EXCEPT !.from = NextFromBlock(to), !.acc = @ \o logs]
    /\ UNCHANGED <<ecdh, call, scan, wallet>>

\* line 77: the second test empties chainConfig.subgraphUrl before it fetches; its
\* a1 and a2 are new bindings
ClearSubgraphUrl ==
    /\ fetch.pc = "ready"
    /\ fetch.step <= Len(TestScript)
    /\ FetchStatement.kind = "clear"
    /\ fetch' = [fetch EXCEPT !.subgraphUrl = "", !.step = @ + 1,
                              !.a1 = NotFetched, !.a2 = NotFetched]
    /\ UNCHANGED <<ecdh, call, scan, wallet>>

FetchNext == FetchCall \/ FetchPage \/ FetchChunk \/ ClearSubgraphUrl

-----------------------------------------------------------------------------
(* ConnectWallet.vue: every click on the component starts one run of       *)
(* connectWalletWithRedirect; runs interleave at their awaits.             *)

MaxClicks == 2

Handlers == 1 .. MaxClicks

Undefined == "undefined"

\* setup: useWallet(props.to || 'home', router)
RedirectTarget(propsTo) == IF propsTo = Undefined \/ propsTo = "" THEN "home" ELSE propsTo

HandlerIdle ==
    [pc |-> "idle", sawAddress |-> FALSE, connectCalls |-> 0, connect |-> "none",
     pushes |-> 0, pushedAfter |-> "none"]

WalletIdle ==
    [userAddress |-> FALSE, to |-> "", mounted |-> FALSE,
     handlers |-> [h \in Handlers |-> HandlerIdle], navigations |-> <<>>]

WalletInit ==
    \E userAddress \in BOOLEAN, propsTo \in {Undefined, "send"} :
        wallet = [WalletIdle EXCEPT !.userAddress = userAddress,
                                    !.to = RedirectTarget(propsTo), !.mounted = TRUE]

\* the first branch without its return: the run falls through to connectWallet
FirstStepNoReturn(userAddress, to) == "connect"

\* lines 18-25: what a run does before its first await
FirstStep(userAddress, to) ==
    IF userAddress /\ to # "" THEN "push"
    ELSE IF userAddress THEN "return"
    ELSE "connect"

Click(h) ==
    /\ wallet.mounted
    /\ wallet.handlers[h].pc = "idle"
    /\ LET step == FirstStep(wallet.userAddress, wallet.to)
           seen == [wallet.handlers[h] EXCEPT !.sawAddress = wallet.userAddress]
       IN  wallet' =
             IF step = "push"
             THEN [wallet EXCEPT !.handlers[h] = [seen EXCEPT !.pc = "awaitPush",
                                                              !.pushes = @ + 1,
                                                              !.pushedAfter = seen.connect],
                                 !.navigations = Append(@, wallet.to)]
             ELSE IF step = "return"
             THEN [wallet EXCEPT !.handlers[h] = [seen EXCEPT !.pc = "done"]]
             ELSE [wallet EXCEPT !.handlers[h] = [seen EXCEPT !.pc = "awaitConnect",
                                                              !.connectCalls = @ + 1,
                                                              !.connect = "pending"]]
    /\ UNCHANGED <<ecdh, call, scan, fetch>>

\* connectWallet resolves (the store may have set the user address); line 27 follows
ConnectResolves(h) ==
    /\ wallet.handlers[h].pc = "awaitConnect"
    /\ \E userAddress \in {wallet.userAddress, TRUE} :
         wallet' =
           IF wallet.to # ""
           THEN [wallet EXCEPT !.userAddress = userAddress,
                               !.handlers[h] = [@ EXCEPT !.pc = "awaitPush",
                                                         !.connect = "resolved",
                                                         !.pushes = @ + 1,
                                                         !.pushedAfter = "resolved"],
                               !.navigations = Append(@, wallet.to)]
           ELSE [wallet EXCEPT !.userAddress = userAddress,
                               !.handlers[h] = [@ EXCEPT !.pc = "done",
                                                         !.connect = "resolved"]]
    /\ UNCHANGED <<ecdh, call, scan, fetch>>

\* connectWallet rejects: the run ends with that rejection
ConnectRejects(h) ==
    /\ wallet.handlers[h].pc = "awaitConnect"
    /\ wallet' = [wallet EXCEPT !.handlers[h] = [@ EXCEPT !.pc = "failed",
                                                          !.connect = "rejected"]]
    /\ UNCHANGED <<ecdh, call, scan, fetch>>

\* router.push settles
PushSettles(h) ==
    /\ wallet.handlers[h].pc = "awaitPush"
    /\ \E outcome \in {"done", "failed"} :
         wallet' = [wallet EXCEPT !.handlers[h] = [@ EXCEPT !.pc = outcome]]
    /\ UNCHANGED <<ecdh, call, scan, fetch>>

WalletNext ==
    \E h \in Handlers :
        \/ Click(h)
        \/ ConnectResolves(h)
        \/ ConnectRejects(h)
        \/ PushSettles(h)

-----------------------------------------------------------------------------
(* Specifications                                                          *)

InitEcdh == EcdhInit /\ call = CallIdle /\ scan = ScanIdle /\ fetch = FetchIdle /\ wallet = WalletIdle

SpecEcdh ==
    InitEcdh /\ [][EcdhNext]_vars

InitCall == CallInit /\ ecdh = EcdhIdle /\ scan = ScanIdle /\ fetch = FetchIdle /\ wallet = WalletIdle

SpecCall ==
    InitCall /\ [][CallNext]_vars

InitScan == ScanInit /\ ecdh = EcdhIdle /\ call = CallIdle /\ fetch = FetchIdle /\ wallet = WalletIdle

SpecScan ==
    InitScan /\ [][ScanNext]_vars

InitFetch == FetchInit /\ ecdh = EcdhIdle /\ call = CallIdle /\ scan = ScanIdle /\ wallet = WalletIdle

SpecFetch ==
    InitFetch /\ [][FetchNext]_vars

InitWallet == WalletInit /\ ecdh = EcdhIdle /\ call = CallIdle /\ scan = ScanIdle /\ fetch = FetchIdle

SpecWallet ==
    InitWallet /\ [][WalletNext]_vars

Init ==
    \/ InitEcdh
    \/ InitCall
    \/ InitScan
    \/ InitFetch
    \/ InitWallet

Next == EcdhNext \/ CallNext \/ ScanNext \/ FetchNext \/ WalletNext

Spec == Init /\ [][Next]_vars

-----------------------------------------------------------------------------
(* Properties                                                              *)

SpendingPoint == Affine(scan.receiverPublicKey.x, scan.receiverPublicKey.y)

CorrectViewingKey == scan.receiverPrivateKey = PrivateKeyString(UserViewingScalar)

ValidCallerKey == assertValidPrivateKey(scan.receiverPrivateKey)

GeneratedForUser(ann, r) == ann = Announce(r, publicKeyHex(UserViewingScalar))

\* C1 (as amended): scanning, with the correct viewing private key, an announcement
\* generated for the user with random value r completes without an error, decrypts
\* r, and derives address(r * S): S scalar-multiplied by r.
C1_ScanDerivesMultipliedKeyAddress ==
    CorrectViewingKey =>
        \A r \in ValidScalars :
            /\ \A i \in 1 .. Len(scan.results) :
                   GeneratedForUser(scan.announcements[i], r) =>
                       /\ scan.results[i].randomNumber = hexZeroPad(r, 32)
                       /\ scan.results[i].address = addressOf(PointMultiply(r, SpendingPoint))
            /\ scan.pc = "thrown" => ~GeneratedForUser(Current, r)

\* C1 (as claimed): the derived address equals address(S + rG).
C1_ScanDerivesAddedKeyAddress ==
    CorrectViewingKey =>
        \A r \in ValidScalars :
            \A i \in 1 .. Len(scan.results) :
                GeneratedForUser(scan.announcements[i], r) =>
                    scan.results[i].address =
                        addressOf(PointAdd(SpendingPoint, PointMultiply(r, BasePoint)))

\* C1 witness: an announcement for the user whose ephemeral key has odd y (the
\* recovered point is its negation) has been scanned to address(r * S) != address(S + rG).
C1_Witness ==
    /\ CorrectViewingKey
    /\ \E r \in ValidScalars : \E i \in 1 .. Len(scan.results) :
          /\ GeneratedForUser(scan.announcements[i], r)
          /\ PointMultiply(r, BasePoint).y % 2 = 1
          /\ scan.results[i].address = addressOf(PointMultiply(r, SpendingPoint))
          /\ scan.results[i].address #
                 addressOf(PointAdd(SpendingPoint, PointMultiply(r, BasePoint)))

\* C2 (as claimed): with valid caller keys a failing announcement never aborts the
\* batch: the scan does not end in an error and returns one result per announcement.
C2_FailureNeverAbortsBatch ==
    ValidCallerKey =>
        /\ scan.pc # "thrown"
        /\ scan.pc = "done" => Len(scan.results) = Len(scan.announcements)

\* C4: getSharedSecret(a, B) and getSharedSecret(b, A) both return, and return the
\* same secret, for all valid key pairs (a, A = aG), (b, B = bG).
C4_EcdhSymmetry ==
    ("AB" \in ecdh.done /\ "BA" \in ecdh.done) =>
        /\ ecdh.AB.error = "none"
        /\ ecdh.BA.error = "none"
        /\ ecdh.AB.secret = ecdh.BA.secret

\* C4 witness: both secrets computed for two different key pairs.
C4_Witness ==
    /\ "AB" \in ecdh.done
    /\ "BA" \in ecdh.done
    /\ ecdh.a # ecdh.b
    /\ ecdh.AB.secret # NoSecret

\* C5: the secret derived from a and B equals the secret derived from a and the
\* point recovered from the x-coordinate of B alone.
C5_SecretIndependentOfParity ==
    ("AB" \in ecdh.done /\ "fromX" \in ecdh.done) =>
        /\ ecdh.fromX.error = "none"
        /\ ecdh.fromX.secret = ecdh.AB.secret

\* C5 witness: both secrets computed where the recovered point is not B (B has odd y).
C5_Witness ==
    /\ "AB" \in ecdh.done
    /\ "fromX" \in ecdh.done
    /\ ecdh.recovered.key # publicKeyHex(ecdh.b)
    /\ ecdh.fromX.secret # NoSecret

\* C6 (as amended): recovery from x(B) succeeds and returns the even-y point with
\* that x: B or its negation, and B exactly when the y of B is even.
C6_RecoversEvenCandidate ==
    "recover" \in ecdh.done =>
        LET B == publicKeyHex(ecdh.b)
            R == ecdh.recovered.key
        IN  /\ ecdh.recovered.ok
            /\ assertValidPoint(R)
            /\ R.x = B.x
            /\ R.y % 2 = 0
            /\ R.y = B.y \/ R.y = FieldPrime - B.y
            /\ (R = B) <=> (B.y % 2 = 0)

\* C6 (as claimed): recovery from x(B) reconstructs B exactly.
C6_RecoversExactPoint ==
    "recover" \in ecdh.done => ecdh.recovered.key = publicKeyHex(ecdh.b)

\* C6 witness: a point with odd y has been recovered to its negation.
C6_Witness ==
    /\ "recover" \in ecdh.done
    /\ publicKeyHex(ecdh.b).y % 2 = 1
    /\ ecdh.recovered.key.y = FieldPrime - publicKeyHex(ecdh.b).y

AllChecksPass ==
    /\ PrivateKeyFormatOk(call.privateKey)
    /\ PublicKeyFormatOk(call.publicKey)
    /\ assertValidPoint(call.publicKey)
    /\ assertValidPrivateKey(call.privateKey)

\* C7: getSharedSecret multiplies only once every check has passed; a malformed
\* private key fails with 'Invalid private key', a malformed public key (the private
\* key being well formed) with 'Invalid public key', a point off the curve and a
\* scalar out of range are rejected, and a rejected call returns no secret and has
\* done no multiplication.
C7_ChecksPrecedeMultiplication ==
    /\ call.ecMuls > 0 => AllChecksPass
    /\ call.pc = "returned" => AllChecksPass /\ call.ecMuls = 1
    /\ call.pc = "thrown" =>
          /\ call.ecMuls = 0
          /\ call.secret = NoSecret
          /\ ~AllChecksPass
          /\ ~PrivateKeyFormatOk(call.privateKey) => call.error = "Invalid private key"
          /\ (PrivateKeyFormatOk(call.privateKey) /\ ~PublicKeyFormatOk(call.publicKey))
                 => call.error = "Invalid public key"
    /\ call.pc \in {"returned", "thrown"} =>
          [error |-> call.error, secret |-> call.secret]
              = getSharedSecret(call.privateKey, call.publicKey)

\* C7 witness: a well-formed public key off the curve has been rejected.
C7_Witness ==
    /\ call.pc = "thrown"
    /\ call.error = "PointNotOnCurve"
    /\ PrivateKeyFormatOk(call.privateKey)
    /\ assertValidPrivateKey(call.privateKey)

FullTrace == <<"recover", "keypair", "assertValidPoint", "secret", "tag", "decrypt", "derive">>

IsPrefix(s, t) == Len(s) <= Len(t) /\ s = SubSeq(t, 1, Len(s))

\* C8 (as amended): the tag is computed after the shared secret and before the
\* decryption, and it is not checked: every announcement whose tag has been computed
\* goes on to the XOR decryption and the scalar multiplication, whatever the tag.
C8_TagComputedNotChecked ==
    /\ IsPrefix(scan.trace, FullTrace)
    /\ \A i \in 1 .. Len(scan.results) : scan.results[i].trace = FullTrace
    /\ (scan.pc = "thrown" /\ scan.tag # NoSecret) =>
          scan.trace = FullTrace /\ scan.error = "InvalidScalar"

\* C8 (as claimed): only announcements whose tag matches are decrypted.
C8_OnlyTagMatchesDecrypted ==
    (scan.pc \in {"line129", "line133", "thrown"} /\ scan.randomNumber # NoRandomNumber) =>
        scan.tag = Current.tag

\* C8 witness: an announcement whose tag does not match has been decrypted and an
\* address derived from it.
C8_Witness ==
    \E i \in 1 .. Len(scan.results) :
        /\ scan.results[i].tag # scan.announcements[i].tag
        /\ scan.results[i].trace = FullTrace
        /\ scan.results[i].address # NoAddress

InOrder(a) ==
    \A i \in 1 .. Len(a) : \A j \in i .. Len(a) :
        \/ a[i].blockNumber < a[j].blockNumber
        \/ a[i].blockNumber = a[j].blockNumber /\ a[i].logIndex <= a[j].logIndex

\* C9: whenever the same block range has been fetched with the subgraph URL set
\* and with it empty, the two calls returned the same announcement sequence, and
\* every returned sequence is in non-decreasing block and log order.
C9_BackendsAgree ==
    \A i \in 1 .. Len(fetch.returned) :
        /\ InOrder(fetch.returned[i].result)
        /\ \A j \in 1 .. Len(fetch.returned) :
              (/\ fetch.returned[i].subgraphUrl # ""
               /\ fetch.returned[j].subgraphUrl = ""
               /\ fetch.returned[i].startBlock = fetch.returned[j].startBlock
               /\ fetch.returned[i].endBlock = fetch.returned[j].endBlock)
                  => fetch.returned[i].result = fetch.returned[j].result

\* C9 witness: the wide range has been fetched from both backends (lines 68 and 84)
\* where the indexer needed several pages and the node several sub-ranges.
C9_Witness ==
    \E i \in 1 .. Len(fetch.returned), j \in 1 .. Len(fetch.returned) :
        /\ fetch.returned[i].line = 68
        /\ fetch.returned[i].subgraphUrl # ""
        /\ fetch.returned[j].line = 84
        /\ fetch.returned[j].subgraphUrl = ""
        /\ Len(fetch.returned[i].result) > PageSize
        /\ fetch.span + 1 > ChunkBlocks
        /\ fetch.returned[i].result = fetch.returned[j].result

\* C10: a run that found a user address never calls connectWallet and navigates at
\* most once; a run that found none calls connectWallet exactly once, navigates only
\* after that call has resolved, and never navigates when it rejected.
C10_ConnectThenRedirect ==
    \A h \in Handlers :
        LET run == wallet.handlers[h]
        IN  run.pc # "idle" =>
              /\ run.pushes <= 1
              /\ run.sawAddress => run.connectCalls = 0
              /\ ~run.sawAddress =>
                    /\ run.connectCalls = 1
                    /\ run.pushes = 1 => run.pushedAfter = "resolved"
                    /\ run.connect = "rejected" => run.pushes = 0
                    /\ run.connect = "pending" => run.pushes = 0

\* C10 witness: two runs were started with no user address; one connected and
\* navigated, the other was rejected and did not navigate.
C10_Witness ==
    \E h1 \in Handlers, h2 \in Handlers :
        /\ ~wallet.handlers[h1].sawAddress
        /\ wallet.handlers[h1].connect = "resolved"
        /\ wallet.handlers[h1].pushes = 1
        /\ ~wallet.handlers[h2].sawAddress
        /\ wallet.handlers[h2].connect = "rejected"
        /\ wallet.handlers[h2].pc = "failed"

=============================================================================
